---- MODULE Spec2Model ----
(***************************************************************************)
(* io-ts-human-reporter: reportOne / report (src/src/index.ts) modelled as *)
(* a state machine.  One step of explain / explainAll is one recursion     *)
(* level of the code.  Codecs and decoded values are first-order records;  *)
(* the failing validations handed to the reporter are produced by decode,  *)
(* which builds the context chains the way the io-ts codecs used by the    *)
(* tests build them.                                                       *)
(***************************************************************************)
EXTENDS Integers, Sequences, FiniteSets, TLC

\* ------------------------------------------------------------------------
\* Generic sequence helpers
\* ------------------------------------------------------------------------

Range(s) == { s[i] : i \in DOMAIN s }

\* Body applied to the value of v, v evaluated once (a LET definition is
\* evaluated again wherever it is used when TLC collects coverage)
Bind(v, Body(_)) == CHOOSE y \in { Body(x) : x \in { v } } : TRUE

\* utils filterMap: map every item, keep the mapped values that pass pred
SeqFilterMap(arr, Mapper(_), Pred(_)) ==
    LET acc[i \in 0..Len(arr)] ==
            IF i = 0 THEN <<>>
            ELSE Bind(Mapper(arr[i]), LAMBDA mapped :
                    IF Pred(mapped) THEN Append(acc[i - 1], mapped) ELSE acc[i - 1])
    IN  acc[Len(arr)]

\* Array.prototype.flatMap
FlatMap(arr, F(_)) ==
    LET acc[i \in 0..Len(arr)] == IF i = 0 THEN <<>> ELSE acc[i - 1] \o F(arr[i])
    IN  acc[Len(arr)]

RECURSIVE dedupe(_)
\* utils dedupe: Array.from(new Set(arr)) keeps the first occurrence of each
dedupe(arr) ==
    IF arr = <<>> THEN <<>>
    ELSE Bind(dedupe(SubSeq(arr, 1, Len(arr) - 1)), LAMBDA init :
            IF arr[Len(arr)] \in Range(init) THEN init
            ELSE Append(init, arr[Len(arr)]))

RECURSIVE Join(_, _)
\* Array.prototype.join
Join(strs, sep) ==
    IF strs = <<>> THEN ""
    ELSE IF Len(strs) = 1 THEN strs[1]
    ELSE strs[1] \o sep \o Join(Tail(strs), sep)

\* the array whole and no last item: nothing is dropped from it
initTailWhole(arr) == << arr, "" >>

\* utils initTail: [all but the last, the last || null]; the model writes
\* null as "" (both are falsy and the caller uses `adjustedKey || ''`)
initTail(arr) ==
    IF arr = <<>> THEN << <<>>, "" >>
    ELSE << SubSeq(arr, 1, Len(arr) - 1), arr[Len(arr)] >>

\* ------------------------------------------------------------------------
\* Codecs (io-ts type descriptors) and decoded values, as records
\* ------------------------------------------------------------------------

\* a property / member of a codec
Prop(k, t) == [key |-> k, type |-> t]

\* `kids` are the props of a t.type, the members of a union, intersection or
\* tuple (keyed by index), the item of an array, the wrapped codec of a
\* refinement.  `message` is <<m>> for a hand-written codec that always
\* fails with the custom message m, and <<>> (undefined) otherwise.
Codec(tag, name, kids, message) ==
    [tag |-> tag, name |-> name, kids |-> kids, message |-> message]

KidNames(kids) == [i \in DOMAIN kids |-> kids[i].type.name]
PropNames(kids) == [i \in DOMAIN kids |-> kids[i].key \o ": " \o kids[i].type.name]
Indexed(ts) == [i \in DOMAIN ts |-> Prop(ToString(i - 1), ts[i])]

TString == Codec("StringType", "string", <<>>, <<>>)
TNumber == Codec("NumberType", "number", <<>>, <<>>)
TNull == Codec("NullType", "null", <<>>, <<>>)
TType(props) ==
    Codec("InterfaceType", "{ " \o Join(PropNames(props), ", ") \o " }", props, <<>>)
TUnion(ts) ==
    Codec("UnionType", "(" \o Join(KidNames(Indexed(ts)), " | ") \o ")", Indexed(ts), <<>>)
TIntersection(ts) ==
    Codec("IntersectionType", "(" \o Join(KidNames(Indexed(ts)), " & ") \o ")",
          Indexed(ts), <<>>)
TArray(item) ==
    Codec("ArrayType", "Array<" \o item.name \o ">", <<Prop("item", item)>>, <<>>)
TTuple(ts) ==
    Codec("TupleType", "[" \o Join(KidNames(Indexed(ts)), ", ") \o "]", Indexed(ts), <<>>)
TRefinement(t, name) == Codec("RefinementType", name, <<Prop("type", t)>>, <<>>)
\* new t.Type(name, is, (a, ctx) => t.failure(a, ctx, message), encode): no _tag
TCustom(name, m) == Codec("", name, <<>>, <<m>>)
\* opts.parentType of the top-level call: null
NoParent == Codec("null", "", <<>>, <<>>)

\* decoded values; equality of the records stands for ===
Value(kind, lit, fields) == [kind |-> kind, lit |-> lit, fields |-> fields]
VUndefined == Value("undefined", "", <<>>)
VNull == Value("null", "", <<>>)
VNum(lit) == Value("number", lit, <<>>)
VStr(lit) == Value("string", lit, <<>>)
Field(k, v) == [key |-> k, val |-> v]
VRec(fields) == Value("record", "", fields)
VArr(items) ==
    Value("array", "", [i \in DOMAIN items |-> Field(ToString(i - 1), items[i])])

Keys(fields) == [i \in DOMAIN fields |-> fields[i].key]
\* a[k]: undefined when the key is absent
Get(v, k) ==
    IF \E i \in DOMAIN v.fields : v.fields[i].key = k
    THEN v.fields[CHOOSE i \in DOMAIN v.fields : v.fields[i].key = k].val
    ELSE VUndefined
\* t.UnknownRecord.is / t.UnknownArray.is
IsRecord(v) == v.kind = "record"
IsArray(v) == v.kind = "array"

\* ------------------------------------------------------------------------
\* codec.decode: the failing validations the tests hand to the reporter
\* ------------------------------------------------------------------------

ContextEntry(key, type, actual) == [key |-> key, type |-> type, actual |-> actual]
appendContext(c, key, type, actual) == Append(c, ContextEntry(key, type, actual))
\* t.failure(u, c, message): one t.ValidationError.  isExhausted is the field
\* of Partial<ErrorFirstContextInfo> an InputError may carry; a validation
\* error fresh from io-ts has none (undefined, written FALSE: only read as !!)
failure(c, message) == << [context |-> c, message |-> message, isExhausted |-> FALSE] >>

RECURSIVE validate(_, _, _)
validate(type, u, c) ==
    CASE type.tag = "StringType" -> IF u.kind = "string" THEN <<>> ELSE failure(c, <<>>)
      [] type.tag = "NumberType" -> IF u.kind = "number" THEN <<>> ELSE failure(c, <<>>)
      [] type.tag = "NullType" -> IF u.kind = "null" THEN <<>> ELSE failure(c, <<>>)
      [] type.tag = "InterfaceType" ->
            IF ~IsRecord(u) THEN failure(c, <<>>)
            ELSE FlatMap(type.kids,
                   LAMBDA p : validate(p.type, Get(u, p.key),
                                       appendContext(c, p.key, p.type, Get(u, p.key))))
      [] type.tag = "ArrayType" ->
            IF ~IsArray(u) THEN failure(c, <<>>)
            ELSE FlatMap(u.fields,
                   LAMBDA f : validate(type.kids[1].type, f.val,
                                       appendContext(c, f.key, type.kids[1].type, f.val)))
      [] type.tag = "TupleType" ->
            IF ~IsArray(u) THEN failure(c, <<>>)
            ELSE FlatMap(type.kids,
                   LAMBDA p : validate(p.type, Get(u, p.key),
                                       appendContext(c, p.key, p.type, Get(u, p.key))))
      [] type.tag = "UnionType" ->
            IF \E i \in DOMAIN type.kids :
                  validate(type.kids[i].type, u,
                           appendContext(c, type.kids[i].key, type.kids[i].type, u)) = <<>>
            THEN <<>>
            ELSE FlatMap(type.kids,
                   LAMBDA p : validate(p.type, u, appendContext(c, p.key, p.type, u)))
      [] type.tag = "IntersectionType" ->
            FlatMap(type.kids,
                   LAMBDA p : validate(p.type, u, appendContext(c, p.key, p.type, u)))
      [] type.tag = "RefinementType" ->
            \* the model's refinements have a predicate the value never meets
            LET inner == validate(type.kids[1].type, u, c)
            IN  IF inner # <<>> THEN inner ELSE failure(c, <<>>)
      [] OTHER -> failure(c, type.message)

\* codec.decode(u): validate(u, [{ key: '', type: codec, actual: u }])
decode(type, u) == validate(type, u, <<ContextEntry("", type, u)>>)
\* codec.is(u)
Is(type, u) == decode(type, u) = <<>>


\* ------------------------------------------------------------------------
\* utils: numbers, ordering helpers
\* ------------------------------------------------------------------------

\* JS numbers that the scores take: exact fractions; -Infinity is -1/0
Frac(n, d) == [num |-> n, den |-> d]
NegInf == Frac(-1, 0)
FracLess(a, b) == a.num * b.den < b.num * a.den
FracGreater(a, b) == FracLess(b, a)

\* Math.max(...xs) over fractions (-Infinity for no argument)
RECURSIVE FracMax(_)
FracMax(xs) ==
    IF xs = <<>> THEN NegInf
    ELSE Bind(FracMax(Tail(xs)), LAMBDA rest :
            IF FracGreater(Head(xs), rest) THEN Head(xs) ELSE rest)

\* Math.max(...xs) over integers, for non-empty xs
RECURSIVE IntMax(_)
IntMax(xs) ==
    IF Len(xs) = 1 THEN xs[1]
    ELSE Bind(IntMax(Tail(xs)), LAMBDA rest : IF xs[1] > rest THEN xs[1] ELSE rest)

OrderGT == 1
OrderLT == -1
OrderEQ == 0

\* utils multiCriterionCompare: findMap returns the first mapped value that is
\* truthy (GT or LT); a position the other array lacks maps to EQ
RECURSIVE multiCriterionCompareFrom(_, _, _)
multiCriterionCompareFrom(arrA, arrB, idx) ==
    IF idx > Len(arrA) THEN OrderEQ
    ELSE LET mapped ==
                 IF idx > Len(arrB) THEN OrderEQ
                 ELSE IF FracGreater(arrA[idx], arrB[idx]) THEN OrderGT
                 ELSE IF FracLess(arrA[idx], arrB[idx]) THEN OrderLT
                 ELSE OrderEQ
         IN  IF mapped # 0 THEN mapped
             ELSE multiCriterionCompareFrom(arrA, arrB, idx + 1)

multiCriterionCompare(arrA, arrB) == multiCriterionCompareFrom(arrA, arrB, 1)

\* utils multiMaxByAll: every item whose criteria equal the maximum, in order
multiMaxByAll(arr, By(_)) ==
    LET Step(prev, item, value) ==
            Bind(multiCriterionCompare(value, prev.max), LAMBDA order :
                IF order = OrderEQ
                   THEN [maxUtilNow |-> Append(prev.maxUtilNow, item), max |-> prev.max]
                ELSE IF order = OrderGT
                   THEN [maxUtilNow |-> <<item>>, max |-> value]
                ELSE prev)
        acc[i \in 0..Len(arr)] ==
            IF i = 0 THEN [maxUtilNow |-> <<>>, max |-> <<NegInf>>]
            ELSE Bind(acc[i - 1], LAMBDA prev :
                    Bind(By(arr[i]), LAMBDA value : Step(prev, arr[i], value)))
    IN  acc[Len(arr)].maxUtilNow

\* utils sortBy: arr.sort((a, b) => by(b) - by(a)), a stable descending sort
sortBy(arr, By(_)) ==
    LET Insert(prev, item, p) ==
            SubSeq(prev, 1, p) \o <<item>> \o SubSeq(prev, p + 1, Len(prev))
        acc[i \in 0..Len(arr)] ==
            IF i = 0 THEN <<>>
            ELSE Bind(acc[i - 1], LAMBDA prev :
                    Insert(prev, arr[i],
                           Cardinality({ j \in DOMAIN prev : By(prev[j]) >= By(arr[i]) })))
    IN  acc[Len(arr)]

\* utils head: arr[0] || null, as a sequence of at most one item
head(arr) == IF arr = <<>> THEN <<>> ELSE <<arr[1]>>
\* the same on strings: an empty string is falsy
headString(arr) == IF arr = <<>> \/ arr[1] = "" THEN <<>> ELSE <<arr[1]>>

\* the largest array index the keys of the model's values and codecs take
MaxIndex == 9
IsArrayIndex(k) == \E n \in 0..MaxIndex : ToString(n) = k
ArrayIndex(k) == CHOOSE n \in 0..MaxIndex : ToString(n) = k

\* the own keys of an object literal or record, in property order: array
\* indices ascending, then the other keys in insertion order
OwnKeys(inserted) ==
    LET NotIndex(k) == ~IsArrayIndex(k)
        Ascending(uniq) ==
            LET sortedIdx[n \in 0..(MaxIndex + 1)] ==
                    IF n = 0 THEN <<>>
                    ELSE IF ToString(n - 1) \in Range(uniq)
                         THEN Append(sortedIdx[n - 1], ToString(n - 1))
                    ELSE sortedIdx[n - 1]
            IN  sortedIdx[MaxIndex + 1]
    IN  Bind(dedupe(inserted), LAMBDA uniq : Ascending(uniq) \o SelectSeq(uniq, NotIndex))

\* utils groupBy, read back with Object.entries / Object.values: the groups
\* as [key, items] pairs in the record's property order
groupBy(arr, By(_)) ==
    Bind(OwnKeys([i \in DOMAIN arr |-> By(arr[i])]), LAMBDA keys :
        [i \in DOMAIN keys |->
            << keys[i], SelectSeq(arr, LAMBDA item : By(item) = keys[i]) >>])


\* ------------------------------------------------------------------------
\* Codec introspection (codecs module)
\* ------------------------------------------------------------------------

IsUnion(c) == c.tag = "UnionType"
IsIntersection(c) == c.tag = "IntersectionType"

\* an optional result (T | null) is a sequence of at most one item
Null == <<>>
Some(x) == <<x>>

\* Codec.getProps: Some(the property names) or Null
RECURSIVE getProps(_)
getProps(codec) ==
    CASE codec.tag = "RefinementType" -> getProps(codec.kids[1].type)
      [] codec.tag = "InterfaceType" -> Some(OwnKeys(Keys(codec.kids)))
      [] codec.tag = "IntersectionType" ->
            Bind(FlatMap(codec.kids, LAMBDA p : getProps(p.type)), LAMBDA types :
                IF types # <<>> THEN Some(OwnKeys(FlatMap(types, LAMBDA ks : ks)))
                ELSE Null)
      [] OTHER -> Null

\* Codec.getArrayItemType
getArrayItemType(codec) ==
    IF codec.tag = "ArrayType" THEN Some(codec.kids[1].type) ELSE Null

\* Codec.getTupleTypes
getTupleTypes(codec) ==
    IF codec.tag = "TupleType" THEN Some(KidNames(codec.kids)) ELSE Null

\* ------------------------------------------------------------------------
\* Messages (messages module): opts.messages is "default" or names the one
\* formatter the caller overrides
\* ------------------------------------------------------------------------

defaultPath(path) == Join(path, ".")

\* the character defaultStringify wraps a rendered value in (a backquote,
\* written ^ here: the parser pairs a backquote in a string with a later ')
Tick == "^"

\* defaultStringify; the model's strings are shorter than the 15 characters
\* from which a string is truncated
defaultStringify(thing) ==
    CASE thing.kind = "number" -> Tick \o thing.lit \o Tick
      [] thing.kind = "string" -> "\"" \o thing.lit \o "\""
      [] thing.kind = "undefined" -> Tick \o "undefined" \o Tick
      [] thing.kind = "null" -> Tick \o "null" \o Tick
      [] thing.kind = "array" ->
            IF Len(thing.fields) = 0 THEN Tick \o "[]" \o Tick
            ELSE IF Len(thing.fields) = 1 THEN Tick \o "[1 item]" \o Tick
            ELSE Tick \o "[" \o ToString(Len(thing.fields)) \o " items]" \o Tick
      [] OTHER ->
            LET keys == OwnKeys(Keys(thing.fields))
            IN  IF Len(keys) = 0 THEN Tick \o "{}" \o Tick
                ELSE IF Len(keys) <= 3 THEN Tick \o "{" \o Join(keys, ",") \o "}" \o Tick
                ELSE Tick \o "{" \o Join(SubSeq(keys, 1, 3), ",") \o "...}" \o Tick

defaultMissing(keys, path) ==
    "missing " \o (IF Len(keys) = 1 THEN "property" ELSE "properties")
        \o " '" \o Join(keys, "', '") \o "' at '" \o defaultPath(path) \o "'"

defaultMismatch(key, path, actual, expected) ==
    "got " \o defaultStringify(actual) \o " expected '" \o expected.name
        \o "' at '" \o defaultPath(Append(path, key)) \o "'"

defaultCustom(msg, path) == msg \o " at '" \o defaultPath(path) \o "'"

\* the README's override of messages.missing
yoinksMissing(keys, path) ==
    "YOINKS! You forgot to add \"" \o Join(keys, ",") \o "\" at \""
        \o Join(path, "/") \o "\"."

\* Messages.withDefault(opts.messages): the defaults, then the overrides
messagesMissing(messages, keys, path) ==
    IF messages = "missing" THEN yoinksMissing(keys, path)
    ELSE defaultMissing(keys, path)
\* the overrides taken instead of the defaults, not merged over them
messagesMismatchNotMerged(messages, key, path, actual, expected) ==
    IF messages = "default" THEN defaultMismatch(key, path, actual, expected)
    ELSE "undefined"
messagesMismatch(messages, key, path, actual, expected) ==
    defaultMismatch(key, path, actual, expected)
messagesCustom(messages, msg, path) == defaultCustom(msg, path)

\* ------------------------------------------------------------------------
\* index.ts
\* ------------------------------------------------------------------------

Options(path, parentType, messages) ==
    [path |-> path, parentType |-> parentType, messages |-> messages]


\* the first change of `actual` below the head: the head is not compared
\* with the entry after it
findLevelsUntilExhaustionBelowHead(context) ==
    LET hits == { idx \in 2..(Len(context) - 1) :
                     context[idx].actual # context[idx + 1].actual }
    IN  IF hits = {} THEN -1
        ELSE (CHOOSE idx \in hits : \A other \in hits : idx <= other) - 1

\* find first change of `actual`: context.findIndex(findLevelsUntilExhaustion)
findLevelsUntilExhaustion(context) ==
    LET hits == { idx \in 1..(Len(context) - 1) :
                     context[idx].actual # context[idx + 1].actual }
    IN  IF hits = {} THEN -1
        ELSE (CHOOSE idx \in hits : \A other \in hits : idx <= other) - 1

\* without `if (!head) return null`: a record without context is kept, with
\* the undefined key, type and actual of the head it does not have
attachExtraInfoToErrorKeepsEmpty(e) ==
    IF e.context = <<>>
    THEN Some([context |-> <<>>,
               message |-> e.message,
               key |-> "undefined",
               type |-> NoParent,
               actual |-> VUndefined,
               isExhausted |-> TRUE,
               levelsUntilExhaustion |-> -1,
               wasParentExhausted |-> e.isExhausted])
    ELSE LET first == Head(e.context)
             tail == Tail(e.context)
         IN  Some([context |-> tail,
                   message |-> e.message,
                   key |-> first.key,
                   type |-> first.type,
                   actual |-> first.actual,
                   isExhausted |-> \A i \in DOMAIN tail : tail[i].actual = first.actual,
                   levelsUntilExhaustion |-> findLevelsUntilExhaustion(e.context),
                   wasParentExhausted |-> e.isExhausted])

\* with `context: context` for `context: tail`: the head is read and stays
attachExtraInfoToErrorKeepsHead(e) ==
    IF e.context = <<>> THEN Null
    ELSE LET first == Head(e.context)
             tail == Tail(e.context)
         IN  Some([context |-> e.context,
                   message |-> e.message,
                   key |-> first.key,
                   type |-> first.type,
                   actual |-> first.actual,
                   isExhausted |-> \A i \in DOMAIN tail : tail[i].actual = first.actual,
                   levelsUntilExhaustion |-> findLevelsUntilExhaustion(e.context),
                   wasParentExhausted |-> e.isExhausted])


\* with levelsUntilExhaustion found in the tail, the context the record
\* keeps, for the context it came with
attachExtraInfoToErrorScansTail(e) ==
    IF e.context = <<>> THEN Null
    ELSE LET first == Head(e.context)
             tail == Tail(e.context)
         IN  Some([context |-> tail,
                   message |-> e.message,
                   key |-> first.key,
                   type |-> first.type,
                   actual |-> first.actual,
                   isExhausted |-> \A i \in DOMAIN tail : tail[i].actual = first.actual,
                   levelsUntilExhaustion |-> findLevelsUntilExhaustion(tail),
                   wasParentExhausted |-> e.isExhausted])

\* attachExtraInfoToError: Null for an empty context
attachExtraInfoToError(e) ==
    IF e.context = <<>> THEN Null
    ELSE LET first == Head(e.context)
             tail == Tail(e.context)
         IN  Some([context |-> tail,
                   message |-> e.message,
                   key |-> first.key,
                   type |-> first.type,
                   actual |-> first.actual,
                   isExhausted |-> \A i \in DOMAIN tail : tail[i].actual = first.actual,
                   levelsUntilExhaustion |-> findLevelsUntilExhaustion(e.context),
                   wasParentExhausted |-> e.isExhausted])

\* errors.map(attachExtraInfoToError).filter(isNotNullable)
ErrorsOnLevelsBelow(errors) == FlatMap(errors, attachExtraInfoToError)

ErrorKey(e) == e.key

\* with [branchKey, ...path] for [...path, branchKey]
extendPathInFront(branchKey, opts) ==
    LET isRoot == opts.path = <<>> /\ branchKey = ""
        shouldExtendPath ==
            ~IsUnion(opts.parentType) /\ ~IsIntersection(opts.parentType) /\ ~isRoot
    IN  IF shouldExtendPath THEN << branchKey >> \o opts.path ELSE opts.path


extendPath(branchKey, opts) ==
    LET isRoot == opts.path = <<>> /\ branchKey = ""
        shouldExtendPath ==
            ~IsUnion(opts.parentType) /\ ~IsIntersection(opts.parentType) /\ ~isRoot
    IN  IF shouldExtendPath THEN Append(opts.path, branchKey) ELSE opts.path

\* filterMap's predicate in detectTypeMismatches: !!a
isNotFalsy(a) == a # Null /\ a[1] # ""

\* the mapper without its first return: a record with actual undefined is
\* formatted like any other
MismatchOfUndefinedToo(e, allExhausted, opts) ==
    IF IsUnion(opts.parentType) THEN Null
    ELSE IF IsIntersection(e.type) THEN Null
    ELSE LET adjusted == IF IsIntersection(opts.parentType)
                         THEN initTail(opts.path)
                         ELSE << opts.path, e.key >>
             error == IF e.message # <<>>
                      THEN messagesCustom(opts.messages, e.message[1], adjusted[1])
                      ELSE messagesMismatch(opts.messages, adjusted[2], adjusted[1],
                                            e.actual, e.type)
         IN  IF allExhausted THEN Some(error)
             ELSE IF IsUnion(e.type) \/ ~e.isExhausted THEN Null
             ELSE Some(error)

\* the mapper without its deferral: every record that is not skipped returns
\* its error at this level
MismatchOfNeverDeferred(e, allExhausted, opts) ==
    IF e.actual = VUndefined THEN Null
    ELSE IF IsUnion(opts.parentType) THEN Null
    ELSE IF IsIntersection(e.type) THEN Null
    ELSE LET adjusted == IF IsIntersection(opts.parentType)
                         THEN initTail(opts.path)
                         ELSE << opts.path, e.key >>
             error == IF e.message # <<>>
                      THEN messagesCustom(opts.messages, e.message[1], adjusted[1])
                      ELSE messagesMismatch(opts.messages, adjusted[2], adjusted[1],
                                            e.actual, e.type)
         IN  Some(error)

\* the mapper without its second and third return: nothing is left to the
\* level of a union's variants or of an intersection's components
MismatchOfNotLeftToBelow(e, allExhausted, opts) ==
    IF e.actual = VUndefined THEN Null
    ELSE LET adjusted == IF IsIntersection(opts.parentType)
                         THEN initTail(opts.path)
                         ELSE << opts.path, e.key >>
             error == IF e.message # <<>>
                      THEN messagesCustom(opts.messages, e.message[1], adjusted[1])
                      ELSE messagesMismatch(opts.messages, adjusted[2], adjusted[1],
                                            e.actual, e.type)
         IN  IF allExhausted THEN Some(error)
             ELSE IF IsUnion(e.type) \/ ~e.isExhausted THEN Null
             ELSE Some(error)


MismatchOf(e, allExhausted, opts) ==
    IF e.actual = VUndefined THEN Null
    ELSE IF IsUnion(opts.parentType) THEN Null
    ELSE IF IsIntersection(e.type) THEN Null
    ELSE LET adjusted == IF IsIntersection(opts.parentType)
                         THEN initTail(opts.path)
                         ELSE << opts.path, e.key >>
             error == IF e.message # <<>>
                      THEN messagesCustom(opts.messages, e.message[1], adjusted[1])
                      ELSE messagesMismatch(opts.messages, adjusted[2], adjusted[1],
                                            e.actual, e.type)
         IN  IF allExhausted THEN Some(error)
             ELSE IF IsUnion(e.type) \/ ~e.isExhausted THEN Null
             ELSE Some(error)

detectTypeMismatches(currentErrorContextsRecord, opts) ==
    FlatMap(currentErrorContextsRecord,
        LAMBDA entry :
            LET currentErrorContexts == entry[2]
                allExhausted == \A i \in DOMAIN currentErrorContexts :
                                    currentErrorContexts[i].isExhausted
            IN  Bind(SeqFilterMap(currentErrorContexts,
                                  LAMBDA e : MismatchOf(e, allExhausted, opts),
                                  isNotFalsy),
                     LAMBDA kept : [i \in DOMAIN kept |-> kept[i][1]]))

\* without the second return: a key is missing whether or not an enclosing
\* level was exhausted
getMissingPropertyAgain(e) ==
    IF e.actual # VUndefined THEN Null
    ELSE Some(e.key)

getMissingPropertyFromErrorContext(e) ==
    IF e.actual # VUndefined THEN Null
    ELSE IF e.wasParentExhausted THEN Null
    ELSE Some(e.key)

\* one message for each missing key instead of one for the level
detectMissingPropertiesPerKey(currentErrorContexts, opts) ==
    LET missingFields == FlatMap(currentErrorContexts, getMissingPropertyFromErrorContext)
    IN  Bind(dedupe(missingFields), LAMBDA uniqMissingFields :
            [i \in DOMAIN uniqMissingFields |->
                messagesMissing(opts.messages, << uniqMissingFields[i] >>, opts.path)])

detectMissingProperties(currentErrorContexts, opts) ==
    LET missingFields == FlatMap(currentErrorContexts, getMissingPropertyFromErrorContext)
    IN  Bind(dedupe(missingFields), LAMBDA uniqMissingFields :
            IF Len(uniqMissingFields) # 0
            THEN << messagesMissing(opts.messages, uniqMissingFields, opts.path) >>
            ELSE <<>>)

maxLevelsUntilExhaustion(errors) ==
    Bind([i \in DOMAIN errors |-> errors[i].levelsUntilExhaustion], IntMax)

\* without the `1 +` of the matched case
scoreObjectSimilarityNoOffset(type, actual) ==
    LET Score(propsKeys, matchedKeys, missingKeys) ==
            IF Len(matchedKeys) # 0
            THEN Some(Frac(Len(matchedKeys) * (missingKeys + 1) - missingKeys,
                           missingKeys + 1))
            ELSE Some(Frac(1, Len(propsKeys) + 1))
    IN  Bind(getProps(type), LAMBDA props :
            IF props = Null THEN Null
            ELSE IF ~IsRecord(actual) THEN Null
            ELSE Bind(SelectSeq(OwnKeys(Keys(actual.fields)),
                                LAMBDA a : a \in Range(props[1])),
                      LAMBDA matchedKeys :
                          Score(props[1], matchedKeys, Len(props[1]) - Len(matchedKeys))))


\* with 1 / 2 for every type none of whose properties is matched
scoreObjectSimilarityFlat(type, actual) ==
    LET Score(propsKeys, matchedKeys, missingKeys) ==
            IF Len(matchedKeys) # 0
            THEN Some(Frac((1 + Len(matchedKeys)) * (missingKeys + 1) - missingKeys,
                           missingKeys + 1))
            ELSE Some(Frac(1, 2))
    IN  Bind(getProps(type), LAMBDA props :
            IF props = Null THEN Null
            ELSE IF ~IsRecord(actual) THEN Null
            ELSE Bind(SelectSeq(OwnKeys(Keys(actual.fields)),
                                LAMBDA a : a \in Range(props[1])),
                      LAMBDA matchedKeys :
                          Score(props[1], matchedKeys, Len(props[1]) - Len(matchedKeys))))


scoreObjectSimilarity(type, actual) ==
    LET Score(propsKeys, matchedKeys, missingKeys) ==
            IF Len(matchedKeys) # 0
            THEN Some(Frac((1 + Len(matchedKeys)) * (missingKeys + 1) - missingKeys,
                           missingKeys + 1))
            ELSE Some(Frac(1, Len(propsKeys) + 1))
    IN  Bind(getProps(type), LAMBDA props :
            IF props = Null THEN Null
            ELSE IF ~IsRecord(actual) THEN Null
            ELSE Bind(SelectSeq(OwnKeys(Keys(actual.fields)),
                                LAMBDA a : a \in Range(props[1])),
                      LAMBDA matchedKeys :
                          Score(props[1], matchedKeys, Len(props[1]) - Len(matchedKeys))))

scoreArraySimilarity(type, actual) ==
    LET itemType == getArrayItemType(type)
    IN  IF itemType = Null THEN Null
        ELSE IF ~IsArray(actual) THEN Null
        ELSE Some(Frac(Len(SelectSeq(actual.fields, LAMBDA f : Is(itemType[1], f.val))), 1))

scoreTupleSimilarity(type, actual) ==
    LET itemTypes == getTupleTypes(type)
    IN  IF itemTypes = Null THEN Null
        ELSE IF ~IsArray(actual) THEN Null
        ELSE LET excess == Len(actual.fields) - Len(itemTypes[1])
             IN  Some(Frac(IF excess > 0 THEN excess ELSE 0, 1))

\* scoreObjectSimilarity ?? scoreArraySimilarity ?? scoreTupleSimilarity ?? -1
SimilarityScore(type, actual) ==
    LET OrElse(score, otherwise) == IF score # Null THEN score[1] ELSE otherwise
    IN  Bind(scoreObjectSimilarity(type, actual), LAMBDA object :
        Bind(scoreArraySimilarity(type, actual), LAMBDA array :
        Bind(scoreTupleSimilarity(type, actual), LAMBDA tuple :
            OrElse(object, OrElse(array, OrElse(tuple, Frac(-1, 1)))))))

\* the criteria selectBestUnionVariant hands to multiMaxByAll
BranchScore(branch) ==
    LET errorsInBranch == branch[2]
        scores == [i \in DOMAIN errorsInBranch |->
                      SimilarityScore(errorsInBranch[i].type, errorsInBranch[i].actual)]
    IN  << Bind(scores, FracMax), Frac(maxLevelsUntilExhaustion(errorsInBranch), 1) >>

\* the first branch as sorted (the most narrowed one), similarity not compared
selectMostNarrowedVariant(branches) == SubSeq(branches, 1, 1)

\* every branch tied at the maximum, without .slice(0, 1)
selectEveryBestUnionVariant(branches) == multiMaxByAll(branches, BranchScore)

\* the last of the branches tied at the maximum
selectLastBestUnionVariant(branches) ==
    Bind(multiMaxByAll(branches, BranchScore), LAMBDA best :
        SubSeq(best, Len(best), Len(best)))

\* no variant is selected when the criteria tell none of several apart
selectBestUnionVariantUnlessAllTied(branches) ==
    Bind(multiMaxByAll(branches, BranchScore), LAMBDA best :
        IF Len(best) > 1 /\ Len(best) = Len(branches) THEN <<>>
        ELSE SubSeq(best, 1, IF Len(best) < 1 THEN Len(best) ELSE 1))


selectBestUnionVariant(branches) ==
    Bind(multiMaxByAll(branches, BranchScore), LAMBDA best :
        SubSeq(best, 1, IF Len(best) < 1 THEN Len(best) ELSE 1))

\* every branch given the same narrowing: sortBy leaves the order as it is
BranchNarrowingEqual(branch) == 0

BranchNarrowing(branch) == maxLevelsUntilExhaustion(branch[2])

\* the branches in the order of Object.entries, without sortBy
filterBranchesUnsorted(parentType, branchRecord) ==
    IF IsUnion(parentType) THEN selectBestUnionVariant(branchRecord) ELSE branchRecord

\* without Codec.is.union(parentType): the best variant is selected among
\* the branches of every level
filterBranchesAlwaysSelects(parentType, branchRecord) ==
    Bind(sortBy(branchRecord, BranchNarrowing), LAMBDA branches :
        selectBestUnionVariant(branches))


filterBranches(parentType, branchRecord) ==
    Bind(sortBy(branchRecord, BranchNarrowing), LAMBDA branches :
        IF IsUnion(parentType) THEN selectBestUnionVariant(branches) ELSE branches)


\* ------------------------------------------------------------------------
\* One recursion level of explain / explainAll
\* ------------------------------------------------------------------------

\* everything one invocation explain(errors, opts) / explainAll(errors, opts)
\* computes before it returns or recurses
Level(errors, opts) ==
    Bind(ErrorsOnLevelsBelow(errors), LAMBDA errorsOnLevelsBelow :
    Bind(groupBy(errorsOnLevelsBelow, ErrorKey), LAMBDA errorsByPath :
        [opts |-> opts,
         errorsOnLevelsBelow |-> errorsOnLevelsBelow,
         errorsByPath |-> errorsByPath,
         mismatches |-> detectTypeMismatches(errorsByPath, opts),
         missing |-> detectMissingProperties(errorsOnLevelsBelow, opts),
         branches |-> filterBranches(opts.parentType, errorsByPath)]))

\* the recursive call made for one branch: explain(branchSubErrors, {...opts,
\* path: extendPath(branchKey, opts), parentType: firstError.type})
SubCall(branch, call) ==
    [errors |-> branch[2],
     opts |-> Options(extendPath(branch[1], call.opts), branch[2][1].type,
                      call.opts.messages),
     crossed |-> Append(call.crossed,
                        [key |-> branch[1], ambient |-> call.opts.parentType.tag])]

\* explain: head(detectTypeMismatches) || head(detectMissingProperties)
ErrorToReport(lv) ==
    IF headString(lv.mismatches) # Null THEN headString(lv.mismatches)
    ELSE headString(lv.missing)

\* the level's missing message put before its mismatch messages
ErrorsToReportMissingFirst(lv) == dedupe(lv.missing \o lv.mismatches)

\* explainAll: dedupe([...detectTypeMismatches, ...detectMissingProperties])
ErrorsToReport(lv) == dedupe(lv.mismatches \o lv.missing)


\* ------------------------------------------------------------------------
\* The codecs and values the reporter is driven with
\* ------------------------------------------------------------------------

Num1 == VNum("1")
StrX == VStr("x")

ObjA == TType(<<Prop("a", TNumber)>>)
ObjB == TType(<<Prop("b", TString)>>)
ObjAB == TType(<<Prop("a", TNumber), Prop("b", TString)>>)
ObjBC == TType(<<Prop("b", TString), Prop("c", TNumber)>>)
ObjABC == TType(<<Prop("a", TNumber), Prop("b", TString), Prop("c", TNumber)>>)
ObjDeep == TType(<<Prop("b", TType(<<Prop("c", TNumber), Prop("a", TNumber)>>))>>)
\* a branded { a: number, c: number } whose predicate the value does not meet
BrandAC == TRefinement(TType(<<Prop("a", TNumber), Prop("c", TNumber)>>), "AC")
CustomNum == TCustom("custom", "not a custom number")

Objects == { ObjA, ObjB, ObjAB, ObjBC, ObjABC, ObjDeep }
Leaves == Objects \cup { TString, TNumber, TArray(ObjA), TTuple(<<TString, TNumber>>),
                         BrandAC, CustomNum }
Members == { TString, ObjA, ObjBC, ObjDeep, BrandAC }
Unions == { TUnion(<<x, y>>) : x \in Members, y \in Members \cup { TArray(TNumber) } }
            \cup { TUnion(<<TArray(TNumber), TTuple(<<TString, TNumber>>)>>),
                   TUnion(<<ObjABC, ObjB>>),
                   TUnion(<<TTuple(<<TNumber>>), TTuple(<<TString, TNumber, TString>>)>>) }
Intersections ==
    { TIntersection(<<x, y>>) : x \in { ObjA, ObjB, ObjDeep },
                                y \in { ObjB, ObjBC, TNumber, BrandAC } }
Algebraic ==
    { TUnion(<<TString, TNumber, ObjB>>),
      TUnion(<<TUnion(<<TString, TNumber>>), ObjB>>),
      TIntersection(<<ObjA, TUnion(<<ObjB, TType(<<Prop("c", TNumber)>>)>>)>>),
      TIntersection(<<TNumber, TString>>),
      TUnion(<<TIntersection(<<ObjA, ObjB>>), ObjBC>>),
      TUnion(<<ObjBC, TIntersection(<<ObjA, ObjB>>), TString>>),
      TUnion(<<ObjAB, TNull>>),
      TIntersection(<<CustomNum, ObjA>>) }
Inner == Leaves \cup Unions \cup Intersections \cup Algebraic
\* some of them also as the property x of an object
Nested == Algebraic \cup { TString, ObjAB, CustomNum,
                           TUnion(<<ObjA, ObjBC>>), TUnion(<<ObjDeep, BrandAC>>),
                           TUnion(<<TString, TArray(TNumber)>>),
                           TIntersection(<<ObjA, ObjB>>),
                           TIntersection(<<ObjDeep, BrandAC>>) }
Outer == { TType(<<Prop("x", t)>>) : t \in Nested }
\* and with a sibling property y
Siblings == { TType(<<Prop("x", t), Prop("y", ObjA)>>) :
                t \in { TString, TUnion(<<BrandAC, ObjBC>>), TUnion(<<ObjA, ObjBC>>),
                        TIntersection(<<ObjA, ObjB>>) } }
            \cup { TType(<<Prop("y", ObjA), Prop("x", TUnion(<<ObjA, ObjBC>>))>>) }
\* a property whose name is the empty string
EmptyKey == TType(<<Prop("", TType(<<Prop("a", ObjB)>>))>>)

Records ==
    { VRec(SelectSeq(<<Field("a", a), Field("b", b), Field("c", c)>>,
                     LAMBDA f : f.val # VUndefined)) :
        <<a, b>> \in ({ VUndefined, Num1 } \X { VUndefined, StrX, VRec(<<Field("c", Num1)>>) })
                         \cup { <<StrX, VUndefined>> },
        c \in { VUndefined, Num1 } }
Arrays == { VArr(<<>>), VArr(<<StrX>>), VArr(<<StrX, Num1>>), VArr(<<StrX, Num1, Num1>>),
            VArr(<<VRec(<<Field("b", StrX)>>), VRec(<<Field("a", StrX)>>)>>) }
InnerValues == Records \cup Arrays \cup { VUndefined, VNull, Num1, StrX }
OuterValues == { VRec(<<Field("x", v)>>) : v \in InnerValues }
SiblingValues == { VRec(<<Field("x", v), Field("y", w)>>) :
                     v \in Records \cup { StrX }, w \in { VRec(<<>>), Num1 } }
                     \cup { VRec(<<>>) }
EmptyKeyValues == { VRec(<<Field("", v)>>) :
                      v \in { StrX, VRec(<<>>), VRec(<<Field("a", VRec(<<>>))>>),
                              VRec(<<Field("a", Num1)>>) } }

\* the validations checked: at most MaxErrors failure records, each with a
\* context of at most MaxContext entries
MaxErrors == 3
MaxContext == 4

WithinBounds(errors) ==
    /\ Len(errors) <= MaxErrors
    /\ \A i \in DOMAIN errors : Len(errors[i].context) <= MaxContext

\* what the caller decodes: a codec and a value of its nesting
Inputs ==
    { i \in { [type |-> t, value |-> v] : t \in Inner, v \in InnerValues }
            \cup { [type |-> t, value |-> v] :
                     t \in Outer, v \in OuterValues \cup { VNull, VRec(<<>>) } }
            \cup { [type |-> t, value |-> v] : t \in Siblings, v \in SiblingValues }
            \cup { [type |-> EmptyKey, value |-> v] : v \in EmptyKeyValues } :
        WithinBounds(decode(i.type, i.value)) }

\* t.Validation<unknown>: Left(errors) or Right(value)
Validation(type, u) ==
    Bind(decode(type, u), LAMBDA errors : [isLeft |-> errors # <<>>, left |-> errors])

\* left(errors): a failing validation built by the caller or returned by a
\* hand-written codec (t.failures); `errors` is any Array<InputError>
Left(errors) == [isLeft |-> TRUE, left |-> errors]
\* the codec and value of a validation that was not decoded from Inputs
NoInput == [type |-> NoParent, value |-> VUndefined]

\* failing validations that no codec of Inputs returns: no failure record, a
\* record without context, and the records of a codec that fails both at
\* a position and below it
Lefts ==
    { Left(<<>>),
      Left(failure(<<>>, <<>>)),
      Left(failure(<<>>, <<>>) \o failure(<<ContextEntry("", TString, Num1)>>, <<>>)
             \o failure(<<>>, <<>>)),
      Left(failure(<<ContextEntry("", ObjA, VRec(<<>>))>>, <<>>)
             \o failure(<<ContextEntry("", ObjA, VRec(<<>>)),
                          ContextEntry("a", TNumber, VUndefined)>>, <<>>)),
      Left(failure(<<ContextEntry("", ObjAB, VRec(<<>>)),
                     ContextEntry("b", TString, StrX)>>, <<>>)
             \o failure(<<ContextEntry("", ObjAB, VRec(<<>>)),
                          ContextEntry("b", ObjA, VRec(<<>>)),
                          ContextEntry("a", TNumber, VUndefined)>>, <<>>)) }


\* ------------------------------------------------------------------------
\* State
\* ------------------------------------------------------------------------

VARIABLES
    input,       \* [type, value]: what the caller decoded
    validation,  \* the t.Validation handed to reportOne and report
    pc,          \* "idle", "explain" (in reportOne) or "explainAll" (in report)
    frame,       \* explain: the arguments of the invocation about to run
    stack,       \* explainAll: the invocations still to run, the next one first
    out,         \* explainAll: the messages returned so far, in order
    oneResult,   \* per opts.messages, [done, value]: what reportOne returned
    allResult,   \* per opts.messages, [done, value]: what report returned
    level,       \* what the invocation that ran last computed (Level(...))
    ran,         \* [fn, crossed]: which function that was, and the branch keys
                 \* (with the ambient type's tag) crossed from the root to it
    visited,     \* per call, the branch keys crossed to each invocation it ran
    earlier      \* [fn, messages, result]: the call that is made a second time
                 \* and what it returned the first time

vars == << input, validation, pc, frame, stack, out, oneResult, allResult,
           level, ran, visited, earlier >>

\* opts.messages of a call: nothing overridden, or the README's missing
MessagesOptions == { "default", "missing" }
Functions == { "reportOne", "report" }

Call(errors, opts, crossed) == [errors |-> errors, opts |-> opts, crossed |-> crossed]

\* Options.withDefault(opts) for a caller that passes at most opts.messages
WithDefault(m) == Options(<<>>, NoParent, m)

NoCall == Call(<<>>, WithDefault("default"), <<>>)
NoLevel == Level(<<>>, WithDefault("default"))
NotRun == [done |-> FALSE, value |-> Null]
Returned(v) == [done |-> TRUE, value |-> v]
Ran(fn, call) == [fn |-> fn, crossed |-> call.crossed]
Visit(fn, call) ==
    [visited EXCEPT ![<<fn, call.opts.messages>>] = Append(@, call.crossed)]

NotAgain == [fn |-> "", messages |-> "", result |-> NotRun]

Init ==
    /\ \/ /\ input \in Inputs
          /\ validation = Validation(input.type, input.value)
       \/ /\ input = NoInput
          /\ validation \in Lefts
    /\ pc = "idle"
    /\ frame = NoCall
    /\ stack = <<>>
    /\ out = <<>>
    /\ oneResult = [m \in MessagesOptions |-> NotRun]
    /\ allResult = [m \in MessagesOptions |-> NotRun]
    /\ level = NoLevel
    /\ ran = Ran("", NoCall)
    /\ visited = [c \in Functions \X MessagesOptions |-> <<>>]
    /\ earlier = NotAgain

\* the caller makes both calls with one opts.messages before it passes another
Passing(m) ==
    \A other \in MessagesOptions \ { m } : oneResult[other].done = allResult[other].done

\* after these calls the caller makes one of them a second time
AllReturned == \A m \in MessagesOptions : oneResult[m].done /\ allResult[m].done
Again == pc = "idle" /\ AllReturned /\ earlier = NotAgain

\* reportOne that hands validation.left to explain without asking isLeft first
ReportOneWithoutIsLeft(m) ==
    /\ pc = "idle"
    /\ \/ /\ ~oneResult[m].done
          /\ Passing(m)
          /\ UNCHANGED earlier
       \/ /\ Again
          /\ earlier' = [fn |-> "reportOne", messages |-> m, result |-> oneResult[m]]
    /\ pc' = "explain"
    /\ frame' = Call(validation.left, WithDefault(m), <<>>)
    /\ oneResult' = [oneResult EXCEPT ![m] = NotRun]
    /\ level' = NoLevel
    /\ ran' = Ran("", NoCall)
    /\ visited' = [visited EXCEPT ![<<"reportOne", m>>] = <<>>]
    /\ UNCHANGED << input, validation, stack, out, allResult >>

\* reportOne(validation, { messages })
ReportOne(m) ==
    /\ pc = "idle"
    /\ \/ /\ ~oneResult[m].done
          /\ Passing(m)
          /\ UNCHANGED earlier
       \/ /\ Again
          /\ earlier' = [fn |-> "reportOne", messages |-> m, result |-> oneResult[m]]
    /\ IF validation.isLeft
       THEN /\ pc' = "explain"
            /\ frame' = Call(validation.left, WithDefault(m), <<>>)
            /\ oneResult' = [oneResult EXCEPT ![m] = NotRun]
       ELSE /\ oneResult' = [oneResult EXCEPT ![m] = Returned(Null)]
            /\ UNCHANGED << pc, frame >>
    /\ level' = NoLevel
    /\ ran' = Ran("", NoCall)
    /\ visited' = [visited EXCEPT ![<<"reportOne", m>>] = <<>>]
    /\ UNCHANGED << input, validation, stack, out, allResult >>

\* one invocation of explain: return a message, return null, or recurse
Explain ==
    /\ pc = "explain"
    /\ \E lv \in { Level(frame.errors, frame.opts) } :
         LET errorToReport == ErrorToReport(lv)
             branch == head(lv.branches)
             m == frame.opts.messages
         IN
           /\ level' = lv
           /\ ran' = Ran("explain", frame)
           /\ visited' = Visit("reportOne", frame)
           /\ IF errorToReport # Null
              THEN /\ oneResult' = [oneResult EXCEPT ![m] = Returned(errorToReport)]
                   /\ pc' = "idle"
                   /\ frame' = NoCall
              ELSE IF branch = Null
              THEN /\ oneResult' = [oneResult EXCEPT ![m] = Returned(Null)]
                   /\ pc' = "idle"
                   /\ frame' = NoCall
              ELSE /\ frame' = SubCall(branch[1], frame)
                   /\ UNCHANGED << oneResult, pc >>
    /\ UNCHANGED << input, validation, stack, out, allResult, earlier >>

\* report with Options.default() handing out one shared object whose path the
\* invocations of an earlier call have extended
ReportSharedPath(m) ==
    /\ pc = "idle"
    /\ \/ /\ ~allResult[m].done
          /\ Passing(m)
          /\ UNCHANGED earlier
       \/ /\ Again
          /\ earlier' = [fn |-> "report", messages |-> m, result |-> allResult[m]]
    /\ IF validation.isLeft
       THEN /\ pc' = "explainAll"
            /\ stack' = << Call(validation.left,
                                Options(level.opts.path, NoParent, m), <<>>) >>
            /\ allResult' = [allResult EXCEPT ![m] = NotRun]
       ELSE /\ allResult' = [allResult EXCEPT ![m] = Returned(<<>>)]
            /\ UNCHANGED << pc, stack >>
    /\ out' = <<>>
    /\ level' = NoLevel
    /\ ran' = Ran("", NoCall)
    /\ visited' = [visited EXCEPT ![<<"report", m>>] = <<>>]
    /\ UNCHANGED << input, validation, frame, oneResult >>

\* report(validation, { messages })
Report(m) ==
    /\ pc = "idle"
    /\ \/ /\ ~allResult[m].done
          /\ Passing(m)
          /\ UNCHANGED earlier
       \/ /\ Again
          /\ earlier' = [fn |-> "report", messages |-> m, result |-> allResult[m]]
    /\ IF validation.isLeft
       THEN /\ pc' = "explainAll"
            /\ stack' = << Call(validation.left, WithDefault(m), <<>>) >>
            /\ allResult' = [allResult EXCEPT ![m] = NotRun]
       ELSE /\ allResult' = [allResult EXCEPT ![m] = Returned(<<>>)]
            /\ UNCHANGED << pc, stack >>
    /\ out' = <<>>
    /\ level' = NoLevel
    /\ ran' = Ran("", NoCall)
    /\ visited' = [visited EXCEPT ![<<"report", m>>] = <<>>]
    /\ UNCHANGED << input, validation, frame, oneResult >>

\* one invocation of explainAll: its own messages first, then its sub-branch
\* invocations in branch order (each runs to its end before the next starts)
ExplainAll ==
    /\ pc = "explainAll"
    /\ \E lv \in { Level(Head(stack).errors, Head(stack).opts) } :
         LET call == Head(stack)
             subCalls == [i \in DOMAIN lv.branches |-> SubCall(lv.branches[i], call)]
             rest == subCalls \o Tail(stack)
             sofar == out \o ErrorsToReport(lv)
         IN
           /\ level' = lv
           /\ ran' = Ran("explainAll", call)
           /\ visited' = Visit("report", call)
           /\ stack' = rest
           /\ IF rest = <<>>
              THEN /\ allResult' = [allResult EXCEPT
                                      ![call.opts.messages] = Returned(sofar)]
                   /\ out' = <<>>
                   /\ pc' = "idle"
              ELSE /\ out' = sofar
                   /\ UNCHANGED << allResult, pc >>
    /\ UNCHANGED << input, validation, frame, oneResult, earlier >>

Next ==
    \/ \E m \in MessagesOptions : ReportOne(m)
    \/ Explain
    \/ \E m \in MessagesOptions : Report(m)
    \/ ExplainAll

Spec == Init /\ [][Next]_vars

\* a caller that passes no options.  explain and explainAll are synchronous
\* calls: an invocation that was started runs
FairNext ==
    \/ ReportOne("default")
    \/ Explain
    \/ Report("default")
    \/ ExplainAll

FairSpec == Init /\ [][FairNext]_vars /\ WF_vars(Explain) /\ WF_vars(ExplainAll)


\* ------------------------------------------------------------------------
\* Properties
\* ------------------------------------------------------------------------

\* the invocation that ran last had a union as ambient type, and records
AtUnionLevel == IsUnion(level.opts.parentType) /\ level.errorsByPath # <<>>

\* the (similarity, narrowing) pair of a branch, compared lexicographically
FracEq(a, b) == ~FracLess(a, b) /\ ~FracLess(b, a)
PairLess(p, q) == FracLess(p[1], q[1]) \/ (FracEq(p[1], q[1]) /\ FracLess(p[2], q[2]))
Maximal(branch) ==
    LET pair == BranchScore(branch)
    IN  \A i \in DOMAIN level.errorsByPath :
            ~PairLess(pair, BranchScore(level.errorsByPath[i]))
\* the variant branches of the level tied at the maximal pair
Tied == { b \in Range(level.errorsByPath) : Maximal(b) }

\* the invocations the last one handed its branches to, first to last
Descents ==
    IF pc = "explain" /\ ran.fn = "explain" THEN << frame >>
    ELSE IF ran.fn = "explainAll"
    THEN SelectSeq(stack, LAMBDA call : Len(call.crossed) = Len(ran.crossed) + 1)
    ELSE <<>>

\* C1: for every failing validation reportOne returns a non-empty string and
\* report returns a non-empty list
C1_AlwaysAnErrorMessage ==
    \A m \in MessagesOptions :
        /\ (validation.isLeft /\ oneResult[m].done) => isNotFalsy(oneResult[m].value)
        /\ (validation.isLeft /\ allResult[m].done) => allResult[m].value # <<>>

\* C2: with the same options reportOne returns the first element of what
\* report returns, and null exactly when report returns an empty list
C2_ReportOneIsFirstOfReport ==
    \A m \in MessagesOptions :
        (oneResult[m].done /\ allResult[m].done)
            => oneResult[m].value = head(allResult[m].value)

\* C3: under a union the branch explain and explainAll descend into has the
\* lexicographically maximal (similarity, narrowing) pair of the level's
\* variant branches, narrowing compared only between equal similarities
C3_DescendsIntoMaximalVariant ==
    AtUnionLevel =>
        /\ level.branches # <<>>
        /\ Maximal(level.branches[1])
        /\ \A i \in DOMAIN Descents : Descents[i].errors = level.branches[1][2]

\* C3 witness: a union level where another variant has the similarity of the
\* chosen one and a smaller narrowing, and the chosen one is descended into
C3_Witness ==
    /\ AtUnionLevel
    /\ Descents # <<>>
    /\ \E i \in DOMAIN level.errorsByPath :
          /\ FracEq(BranchScore(level.errorsByPath[i])[1],
                    BranchScore(level.branches[1])[1])
          /\ FracLess(BranchScore(level.errorsByPath[i])[2],
                      BranchScore(level.branches[1])[2])
    /\ \E i \in DOMAIN level.errorsByPath :
          FracLess(BranchScore(level.errorsByPath[i])[1],
                   BranchScore(level.branches[1])[1])

\* C4: given at least one branch selectBestUnionVariant returns exactly one,
\* and reportOne and report descend from a union level into the records of
\* that one variant only
C4_OneVariantBelowUnion ==
    AtUnionLevel =>
        /\ Len(level.branches) = 1
        /\ level.branches[1] \in Range(level.errorsByPath)
        /\ Len(Descents) <= 1
        /\ \A i \in DOMAIN Descents :
              /\ Descents[i].errors = level.branches[1][2]
              /\ Descents[i].errors # <<>>

\* C4 witness: report descended from a union level with two tied variants
C4_Witness ==
    /\ AtUnionLevel
    /\ ran.fn = "explainAll"
    /\ Len(Descents) = 1
    /\ Cardinality(Tied) >= 2

\* C5 as stated: report keeps and descends into every variant branch tied at
\* the maximal pair, and only reportOne reduces the tie to the first
C5_ReportKeepsAllTied ==
    (AtUnionLevel /\ ran.fn = "explainAll") => Range(level.branches) = Tied

\* the tied variant met first: with the lowest variant index
FirstTied ==
    LET tied == Tied
    IN  CHOOSE b \in tied : \A c \in tied : ArrayIndex(b[1]) <= ArrayIndex(c[1])

\* C5 amended: report too keeps only the first of the tied variant branches,
\* as reportOne does, and descends into no other
C5_BothKeepFirstTied ==
    AtUnionLevel =>
        LET first == FirstTied
        IN  /\ level.branches = << first >>
            /\ \A i \in DOMAIN Descents : Descents[i].errors = first[2]

\* C5 witness: report ran a union level where three variant branches tie
C5_Witness ==
    /\ AtUnionLevel
    /\ ran.fn = "explainAll"
    /\ Cardinality(Tied) >= 3
    /\ Descents # <<>>

\* the messages report has returned up to now for the call that ran last
Reported ==
    IF pc = "explainAll" THEN out ELSE allResult[level.opts.messages].value

\* the keys of the level's records with actual undefined whose parent was not
\* exhausted, each once, in the order they are first met
MissingKeys ==
    LET records == level.errorsOnLevelsBelow
        Qualifies(i) == records[i].actual = VUndefined /\ ~records[i].wasParentExhausted
        First(i) == \A j \in 1..(i - 1) : ~(Qualifies(j) /\ records[j].key = records[i].key)
        keys[i \in 0..Len(records)] ==
            IF i = 0 THEN <<>>
            ELSE IF Qualifies(i) /\ First(i) THEN Append(keys[i - 1], records[i].key)
            ELSE keys[i - 1]
    IN  keys[Len(records)]

\* C6: a level yields one missing message for all its records with actual
\* undefined and wasParentExhausted false, listing each distinct key once in
\* first-seen order, and never more than one missing message
C6_OneMissingMessagePerLevel ==
    ran.fn # "" =>
        LET keys == MissingKeys
        IN  /\ Len(level.missing) <= 1
            /\ keys = <<>> => level.missing = <<>>
            /\ keys # <<>> =>
                  /\ level.missing =
                        << messagesMissing(level.opts.messages, keys, level.opts.path) >>
                  /\ ran.fn = "explainAll" => level.missing[1] \in Range(Reported)

\* C6 witness: report ran a level where a key is missing in two records and
\* another key is missing too
C6_Witness ==
    /\ ran.fn = "explainAll"
    /\ Len(MissingKeys) >= 2
    /\ Len(SelectSeq(level.errorsOnLevelsBelow,
                     LAMBDA e : e.actual = VUndefined /\ ~e.wasParentExhausted))
          > Len(MissingKeys)
    /\ Len(level.missing) = 1

\* the invocation that ran last had an intersection as ambient type
AtIntersectionLevel == IsIntersection(level.opts.parentType) /\ level.errorsByPath # <<>>

\* the component indices of the invocations the level handed its branches to
Components == [i \in DOMAIN Descents |-> ArrayIndex(Descents[i].crossed[Len(Descents[i].crossed)].key)]

\* C7 as stated: report goes through the components of an intersection in
\* component order, each at the intersection's own path
C7_ComponentOrder ==
    (AtIntersectionLevel /\ ran.fn = "explainAll" /\ pc = "explainAll") =>
        /\ \A i, j \in DOMAIN Descents : i < j => Components[i] < Components[j]
        /\ \A i \in DOMAIN Descents : Descents[i].opts.path = level.opts.path

\* an intersection of object types decoding an object, every failure a field
\* that is missing in a component
FlatIntersection ==
    /\ input.type.tag = "IntersectionType"
    /\ \A i \in DOMAIN input.type.kids : input.type.kids[i].type.tag = "InterfaceType"
    /\ IsRecord(input.value)
    /\ validation.isLeft
    /\ \A i \in DOMAIN validation.left :
          /\ Len(validation.left[i].context) = 3
          /\ validation.left[i].context[3].actual = VUndefined

\* one missing message for each component that misses fields, in component
\* order, at the root path
PerComponent(m) ==
    LET Missing(component) ==
            SelectSeq([i \in DOMAIN component.kids |-> component.kids[i].key],
                      LAMBDA k : Get(input.value, k) = VUndefined)
        failing == SelectSeq(input.type.kids, LAMBDA kid : Missing(kid.type) # <<>>)
    IN  [n \in DOMAIN failing |-> messagesMissing(m, Missing(failing[n].type), <<>>)]

\* C7 amended: report goes through the components of an intersection by
\* descending narrowing (the largest levelsUntilExhaustion of the component's
\* records), in component order between equal narrowings, each at the
\* intersection's own path; for components that are object types this is
\* one missing message per component in component order, and reportOne
\* returns the first
C7_ComponentsByNarrowing ==
    /\ (AtIntersectionLevel /\ ran.fn = "explainAll" /\ pc = "explainAll") =>
          /\ Len(Descents) = Len(level.errorsByPath)
          /\ \A i, j \in DOMAIN Descents : i < j =>
                LET ni == maxLevelsUntilExhaustion(Descents[i].errors)
                    nj == maxLevelsUntilExhaustion(Descents[j].errors)
                IN  ni > nj \/ (ni = nj /\ Components[i] < Components[j])
          /\ \A i \in DOMAIN Descents : Descents[i].opts.path = level.opts.path
    /\ FlatIntersection =>
          \A m \in MessagesOptions :
              /\ allResult[m].done => allResult[m].value = PerComponent(m)
              /\ oneResult[m].done => oneResult[m].value = head(PerComponent(m))

\* C7 witness: report and reportOne returned for an intersection of object
\* types where two components miss fields
C7_Witness ==
    /\ FlatIntersection
    /\ allResult["default"].done
    /\ oneResult["default"].done
    /\ Len(allResult["default"].value) >= 2

\* the position every failure of the validation is at: a union (context entry
\* p) whose value v is not undefined and is the value of every entry below p
Unassignable(p) ==
    /\ validation.isLeft
    /\ validation.left # <<>>
    /\ \A i \in DOMAIN validation.left :
          LET context == validation.left[i].context
          IN  /\ Len(context) > p
              /\ context[p] = validation.left[1].context[p]
              /\ IsUnion(context[p].type)
              /\ context[p].actual # VUndefined
              /\ \A n \in 1..(p - 1) :
                    /\ ~IsUnion(context[n].type)
                    /\ ~IsIntersection(context[n].type)
              /\ \A n \in p..Len(context) : context[n].actual = context[p].actual

\* the mismatch message that names the union at its own path and key
UnionMismatch(m, p) ==
    LET context == validation.left[1].context
    IN  messagesMismatch(m, context[p].key,
                         [n \in 1..(p - 2) |-> context[n + 1].key],
                         context[p].actual, context[p].type)

\* C8: for a value, not undefined, that no variant of a union accepts at all
\* report returns exactly one mismatch message, which names the union at the
\* position's path and key, and no message from inside a variant
C8_OnlyTheUnionMismatch ==
    \A p \in 1..MaxContext : \A m \in MessagesOptions :
        (Unassignable(p) /\ allResult[m].done)
            => allResult[m].value = << UnionMismatch(m, p) >>

\* the keys crossed that a path keeps: not those crossed under a union or an
\* intersection, and not the empty key the root call crosses
Kept(crossed) ==
    LET Keeps(i) == /\ crossed[i].ambient \notin { "UnionType", "IntersectionType" }
                    /\ ~(i = 1 /\ crossed[i].key = "")
        path[i \in 0..Len(crossed)] ==
            IF i = 0 THEN <<>>
            ELSE IF Keeps(i) THEN Append(path[i - 1], crossed[i].key)
            ELSE path[i - 1]
    IN  path[Len(crossed)]

\* C9: at every level the path is the branch keys crossed so far without
\* those crossed under a union or an intersection and without the empty key
\* of the root call
C9_PathIsKeysCrossed ==
    ran.fn # "" => level.opts.path = Kept(ran.crossed)

\* a message of the default missing formatter, and one of the override
IsDefaultMissing(text) == Len(text) >= 8 /\ SubSeq(text, 1, 8) = "missing "
IsOverriddenMissing(text) == Len(text) >= 8 /\ SubSeq(text, 1, 8) = "YOINKS! "
SameButMissing(default, overridden) ==
    \/ default = overridden /\ ~IsDefaultMissing(default)
    \/ IsDefaultMissing(default) /\ IsOverriddenMissing(overridden)

C11_RightIsNullAndEmpty ==
    ~validation.isLeft =>
        /\ pc = "idle"
        /\ \A m \in MessagesOptions :
              /\ oneResult[m].done => oneResult[m].value = Null
              /\ allResult[m].done => allResult[m].value = <<>>
              /\ visited[<<"reportOne", m>>] = <<>>
              /\ visited[<<"report", m>>] = <<>>

\* C11 witness: both functions returned for a successful validation, with
\* the default messages and with messages.missing overridden
C11_Witness ==
    /\ ~validation.isLeft
    /\ \A m \in MessagesOptions : oneResult[m].done /\ allResult[m].done

\* the messages the level that explainAll ran last added to the result: the
\* last ones returned so far, as many as the level has distinct messages
LevelMessages ==
    LET n == Cardinality(Range(level.mismatches) \cup Range(level.missing))
    IN  SubSeq(Reported, Len(Reported) - n + 1, Len(Reported))

\* where a message stands first among the level's mismatch messages
FirstAt(text) == CHOOSE i \in DOMAIN level.mismatches :
                    /\ level.mismatches[i] = text
                    /\ \A j \in 1..(i - 1) : level.mismatches[j] # text

\* C12: a level of report adds its mismatch messages in their order, then
\* its missing message, and hands its branches on in branch order, to run
\* before anything an enclosing level still has to run; a level of reportOne
\* that yields a mismatch and a missing message returns the mismatch
C12_MismatchMissingBranches ==
    /\ ran.fn = "explainAll" =>
          LET added == LevelMessages
          IN  /\ Range(added) = Range(level.mismatches) \cup Range(level.missing)
              /\ \A i, j \in DOMAIN added :
                    (i < j /\ added[j] \in Range(level.mismatches)) =>
                        /\ added[i] \in Range(level.mismatches)
                        /\ FirstAt(added[i]) < FirstAt(added[j])
              /\ pc = "explainAll" =>
                    /\ Len(stack) >= Len(level.branches)
                    /\ Descents = SubSeq(stack, 1, Len(level.branches))
                    /\ \A i \in DOMAIN level.branches :
                          stack[i].errors = level.branches[i][2]
              /\ pc = "idle" => level.branches = <<>>
    /\ (ran.fn = "explain" /\ level.mismatches # <<>> /\ level.missing # <<>>) =>
          /\ pc = "idle"
          /\ oneResult[level.opts.messages] = Returned(Some(level.mismatches[1]))

\* C12 witness: report ran a level that yields mismatch and missing messages
\* and has two branches, and reportOne has returned the level's mismatch
C12_Witness ==
    /\ ran.fn = "explainAll"
    /\ level.mismatches # <<>>
    /\ level.missing # <<>>
    /\ Len(level.branches) >= 2
    /\ oneResult[level.opts.messages] = Returned(Some(level.mismatches[1]))

\* a message of the missing formatter in use
IsMissing(text) == IsDefaultMissing(text) \/ IsOverriddenMissing(text)

\* every failure of the validation ends at a value that is undefined
EndsUndefined ==
    /\ validation.isLeft
    /\ \A i \in DOMAIN validation.left :
          LET context == validation.left[i].context
          IN  context # <<>> /\ context[Len(context)].actual = VUndefined

\* C13: a record with actual undefined yields no mismatch and no custom
\* message, with or without a message of its own: a level has at most as many
\* mismatch messages as records whose actual is not undefined, and a
\* validation whose failures all end at undefined is reported with missing
\* messages only
C13_UndefinedIsOnlyMissing ==
    /\ ran.fn # "" =>
          Len(level.mismatches)
            <= Len(SelectSeq(level.errorsOnLevelsBelow, LAMBDA e : e.actual # VUndefined))
    /\ EndsUndefined =>
          \A m \in MessagesOptions :
              /\ \A i \in DOMAIN allResult[m].value : IsMissing(allResult[m].value[i])
              /\ \A i \in DOMAIN oneResult[m].value : IsMissing(oneResult[m].value[i])
              /\ \A i \in DOMAIN out : IsMissing(out[i])

\* C13 witness: report ran a level with a record that has actual undefined
\* and a custom message, and reported the key as missing
C13_Witness ==
    /\ ran.fn = "explainAll"
    /\ \E i \in DOMAIN level.errorsOnLevelsBelow :
          /\ level.errorsOnLevelsBelow[i].actual = VUndefined
          /\ level.errorsOnLevelsBelow[i].message # <<>>
          /\ ~level.errorsOnLevelsBelow[i].wasParentExhausted
    /\ level.missing # <<>>
    /\ level.missing[1] \in Range(Reported)

\* every failure of the validation goes through one position, context entry
\* p, whose value is undefined while the values above it are not
MissingAt(p) ==
    /\ validation.isLeft
    /\ validation.left # <<>>
    /\ \A i \in DOMAIN validation.left :
          LET context == validation.left[i].context
          IN  /\ Len(context) >= p
              /\ SubSeq(context, 1, p) = SubSeq(validation.left[1].context, 1, p)
              /\ context[p].actual = VUndefined
              /\ \A n \in 1..(p - 1) : context[n].actual # VUndefined
              /\ \A n \in p..Len(context) : context[n].actual = VUndefined

\* the path of the invocation that meets entry p of the first failure: the
\* keys of the entries above it, extended as the driver extends them
PathTo(p) ==
    LET context == validation.left[1].context
        path[n \in 0..(p - 1)] ==
            IF n = 0 THEN <<>>
            ELSE extendPath(context[n].key,
                            Options(path[n - 1],
                                    IF n = 1 THEN NoParent ELSE context[n - 1].type,
                                    "default"))
    IN  path[p - 1]

\* the one missing message for the position
MissingOnce(m, p) ==
    messagesMissing(m, << validation.left[1].context[p].key >>, PathTo(p))

\* C14: a value that is undefined at a position is reported by exactly one
\* missing message, with the position's key at the position's path, by
\* report and by reportOne; the levels below, whose records have
\* wasParentExhausted true, report nothing
C14_MissingReportedOnce ==
    /\ \A p \in 1..MaxContext : \A m \in MessagesOptions :
          MissingAt(p) =>
              /\ allResult[m].done => allResult[m].value = << MissingOnce(m, p) >>
              /\ oneResult[m].done => oneResult[m].value = Some(MissingOnce(m, p))
    /\ (ran.fn # "" /\ \A i \in DOMAIN level.errorsOnLevelsBelow :
                          /\ level.errorsOnLevelsBelow[i].actual = VUndefined
                          /\ level.errorsOnLevelsBelow[i].wasParentExhausted) =>
          /\ level.missing = <<>>
          /\ level.mismatches = <<>>

\* C14 witness: report has reported a property as missing once and then ran
\* a level below it whose records are undefined with wasParentExhausted true
C14_Witness ==
    /\ \E p \in 2..MaxContext : MissingAt(p)
    /\ ran.fn = "explainAll"
    /\ level.errorsOnLevelsBelow # <<>>
    /\ \A i \in DOMAIN level.errorsOnLevelsBelow :
          /\ level.errorsOnLevelsBelow[i].actual = VUndefined
          /\ level.errorsOnLevelsBelow[i].wasParentExhausted
    /\ Len(Reported) = 1

NoInformation ==
    /\ validation.isLeft
    /\ \A i \in DOMAIN validation.left : validation.left[i].context = <<>>

\* the invocation that ran last found no message and no branch
NothingFound ==
    /\ level.mismatches = <<>>
    /\ level.missing = <<>>
    /\ level.branches = <<>>

Longest ==
    IntMax(<<0>> \o [i \in DOMAIN validation.left |-> Len(validation.left[i].context)])

\* the contexts of the failure records, added up
TotalContext ==
    LET sum[i \in 0..Len(validation.left)] ==
            IF i = 0 THEN 0 ELSE sum[i - 1] + Len(validation.left[i].context)
    IN  sum[Len(validation.left)]

\* the record is a failure record of the validation without the first n
\* entries of its context
Shortened(e, n) ==
    \E i \in DOMAIN validation.left :
        LET context == validation.left[i].context
        IN  /\ Len(context) >= n
            /\ e.context = SubSeq(context, n + 1, Len(context))
            /\ e.key = context[n].key

\* the depth of the invocation that ran last: 1 for the one reportOne or
\* report starts
Depth == Len(ran.crossed) + 1

\* the records every invocation works on have lost one context entry per
\* level, no invocation is deeper than the longest context plus one, an
\* invocation whose records have no context left goes no deeper, and a call
\* runs no more invocations than one and the contexts' entries
ShrinksByOne ==
    /\ ran.fn # "" =>
          /\ \A i \in DOMAIN level.errorsOnLevelsBelow :
                Shortened(level.errorsOnLevelsBelow[i], Depth)
          /\ Depth <= Longest + 1
          /\ level.errorsOnLevelsBelow = <<>> =>
                level.branches = <<>> /\ Descents = <<>>
    /\ \A c \in Functions \X MessagesOptions : Len(visited[c]) <= 1 + TotalContext

\* C17: every call of reportOne and report returns; each level shortens the
\* context of every record it keeps by one entry, and no invocation is
\* deeper than the longest context of the validation plus one
C17_EveryCallReturns ==
    /\ []ShrinksByOne
    /\ (pc # "idle") ~> (pc = "idle")

\* C17 witness: report ran an invocation at the depth of the longest context
\* plus one, of a validation whose longest context has four entries
C17_Witness ==
    /\ ran.fn = "explainAll"
    /\ Longest = MaxContext
    /\ Depth = Longest + 1

\* the keys of the level's records, each once, in the order they are first met
FirstSeenKeys ==
    LET records == level.errorsOnLevelsBelow
        keys[i \in 0..Len(records)] ==
            IF i = 0 THEN <<>>
            ELSE IF \E j \in 1..(i - 1) : records[j].key = records[i].key
                 THEN keys[i - 1]
            ELSE Append(keys[i - 1], records[i].key)
    IN  keys[Len(records)]

\* the branch keys of the invocations the level handed its branches to
DescentKeys == [i \in DOMAIN Descents |-> Descents[i].crossed[Len(Descents[i].crossed)].key]

\* a level that is not under a union, where every branch is kept
AtPlainLevel == ran.fn # "" /\ ~IsUnion(level.opts.parentType)

\* C18 as stated: the driver goes through the branches of a level in the
\* order their keys are first met among the level's records
C18_VisitsInFirstSeenOrder ==
    /\ (AtPlainLevel /\ ran.fn = "explainAll" /\ pc = "explainAll") =>
          DescentKeys = FirstSeenKeys
    /\ (AtPlainLevel /\ ran.fn = "explain" /\ pc = "explain") =>
          DescentKeys = SubSeq(FirstSeenKeys, 1, 1)

\* where a key is first met
SeenAt(k) == CHOOSE i \in DOMAIN FirstSeenKeys : FirstSeenKeys[i] = k

\* C18 amended: the groups of a level are keyed uniquely, in the order their
\* keys are first met, each with the records of its key; the driver goes
\* through them by descending narrowing (the largest levelsUntilExhaustion
\* of the group's records) and in first-seen order between equal narrowings:
\* report runs the branches in that order, reportOne the first of them
C18_VisitsByNarrowing ==
    /\ ran.fn # "" =>
          /\ [i \in DOMAIN level.errorsByPath |-> level.errorsByPath[i][1]] = FirstSeenKeys
          /\ \A i \in DOMAIN level.errorsByPath :
                level.errorsByPath[i][2] =
                    SelectSeq(level.errorsOnLevelsBelow,
                              LAMBDA e : e.key = level.errorsByPath[i][1])
    /\ AtPlainLevel =>
          /\ Range(level.branches) = Range(level.errorsByPath)
          /\ Len(level.branches) = Len(level.errorsByPath)
          /\ \A i, j \in DOMAIN level.branches : i < j =>
                LET ni == maxLevelsUntilExhaustion(level.branches[i][2])
                    nj == maxLevelsUntilExhaustion(level.branches[j][2])
                IN  ni > nj \/ (ni = nj /\ SeenAt(level.branches[i][1])
                                            < SeenAt(level.branches[j][1]))
    /\ (AtPlainLevel /\ ran.fn = "explainAll" /\ pc = "explainAll") =>
          DescentKeys = [i \in DOMAIN level.branches |-> level.branches[i][1]]
    /\ (AtPlainLevel /\ ran.fn = "explain" /\ pc = "explain") =>
          DescentKeys = << level.branches[1][1] >>

\* C18 witness: report ran a level of an object type where the property met
\* second narrows further than the one met first, and runs its branch first
C18_Witness ==
    /\ ran.fn = "explainAll"
    /\ pc = "explainAll"
    /\ level.opts.parentType.tag = "InterfaceType"
    /\ Len(FirstSeenKeys) = 2
    /\ DescentKeys = << FirstSeenKeys[2], FirstSeenKeys[1] >>

\* a path without its last segment, and that segment ('' for no segment)
AllButLast(path) == SubSeq(path, 1, Len(path) - 1)
LastOf(path) == IF path = <<>> THEN "" ELSE path[Len(path)]

\* the text of a record's mismatch or custom message as C19 states it: under
\* an intersection at the path without its last segment and with no key
TextAsStated(e) ==
    LET m == level.opts.messages
        path == level.opts.path
    IN  IF IsIntersection(level.opts.parentType)
        THEN IF e.message # <<>> THEN messagesCustom(m, e.message[1], AllButLast(path))
             ELSE messagesMismatch(m, "", AllButLast(path), e.actual, e.type)
        ELSE IF e.message # <<>> THEN messagesCustom(m, e.message[1], path)
             ELSE messagesMismatch(m, e.key, path, e.actual, e.type)

\* the same with the dropped segment as the key of a mismatch under an
\* intersection
TextWithSegmentAsKey(e) ==
    LET m == level.opts.messages
        path == level.opts.path
    IN  IF IsIntersection(level.opts.parentType)
        THEN IF e.message # <<>> THEN messagesCustom(m, e.message[1], AllButLast(path))
             ELSE messagesMismatch(m, LastOf(path), AllButLast(path), e.actual, e.type)
        ELSE IF e.message # <<>> THEN messagesCustom(m, e.message[1], path)
             ELSE messagesMismatch(m, e.key, path, e.actual, e.type)

\* C19 as stated: under an intersection a mismatch is formatted with the last
\* path segment dropped and no key, a custom message at the path without its
\* last segment; elsewhere with the path and the record's key
C19_SegmentDroppedKeySuppressed ==
    ran.fn # "" =>
        \A i \in DOMAIN level.mismatches :
            \E j \in DOMAIN level.errorsOnLevelsBelow :
                /\ level.errorsOnLevelsBelow[j].actual # VUndefined
                /\ level.mismatches[i] = TextAsStated(level.errorsOnLevelsBelow[j])

\* C19 amended: under an intersection a mismatch is formatted with the path
\* without its last segment and that segment as the key, in place of the
\* component's index, so it is located at the unchanged path; a custom
\* message is formatted at the path without its last segment; elsewhere the
\* path and the record's key are used unchanged
C19_SegmentBecomesKey ==
    ran.fn # "" =>
        \A i \in DOMAIN level.mismatches :
            \E j \in DOMAIN level.errorsOnLevelsBelow :
                /\ level.errorsOnLevelsBelow[j].actual # VUndefined
                /\ level.mismatches[i] = TextWithSegmentAsKey(level.errorsOnLevelsBelow[j])

\* C19 witness: report ran a level under an intersection that is a property
\* of an object, and the level yields a custom message and a mismatch
C19_Witness ==
    /\ ran.fn = "explainAll"
    /\ IsIntersection(level.opts.parentType)
    /\ level.opts.path # <<>>
    /\ \E i, j \in DOMAIN level.errorsOnLevelsBelow :
          /\ level.errorsOnLevelsBelow[i].message # <<>>
          /\ level.errorsOnLevelsBelow[j].message = <<>>
          /\ TextWithSegmentAsKey(level.errorsOnLevelsBelow[i]) \in Range(level.mismatches)
          /\ TextWithSegmentAsKey(level.errorsOnLevelsBelow[j]) \in Range(level.mismatches)

\* a record the mismatch classifier skips at the current level
Skipped(e) ==
    \/ e.actual = VUndefined
    \/ IsUnion(level.opts.parentType)
    \/ IsIntersection(e.type)

\* every record of a key group is exhausted
GroupExhausted(records) == \A i \in DOMAIN records : records[i].isExhausted

\* the emission rule of C20 for one record of a key group
Emits(e, records) ==
    /\ ~Skipped(e)
    /\ \/ GroupExhausted(records)
       \/ e.isExhausted /\ ~IsUnion(e.type)

\* the mismatches one key group gives at the current level under that rule
GroupMismatches(group) ==
    LET emitting == SelectSeq(group[2], LAMBDA e : Emits(e, group[2]))
    IN  [i \in DOMAIN emitting |-> TextWithSegmentAsKey(emitting[i])]

\* C20: the mismatches of a level are, group by group, those of every
\* non-skipped record when all records of the group are exhausted, and
\* otherwise those of the non-skipped records that are themselves exhausted
\* and not of a union type; no other record gives a mismatch at this level
C20_EmissionPerGroup ==
    ran.fn # "" => level.mismatches = FlatMap(level.errorsByPath, GroupMismatches)

\* C20 witness: a level has a key group that is not exhausted as a whole,
\* in which one record emits its mismatch and another, not skipped, is
\* deferred; and the level's mismatches are that one message
C20_Witness ==
    /\ ran.fn # ""
    /\ \E g \in DOMAIN level.errorsByPath :
          LET records == level.errorsByPath[g][2]
          IN  /\ ~GroupExhausted(records)
              /\ \E i, j \in DOMAIN records :
                    /\ Emits(records[i], records)
                    /\ ~Skipped(records[j])
                    /\ ~Emits(records[j], records)
                    /\ level.mismatches = << TextWithSegmentAsKey(records[i]) >>

\* C21: a level whose ambient type is a union yields no mismatch and no
\* custom message, and at no level does a record whose own type is an
\* intersection yield its mismatch or custom message: what is reported of
\* them comes from the levels below
C21_LeftToLevelsBelow ==
    ran.fn # "" =>
        /\ IsUnion(level.opts.parentType) => level.mismatches = <<>>
        /\ \A j \in DOMAIN level.errorsOnLevelsBelow :
              LET e == level.errorsOnLevelsBelow[j]
              IN  (IsIntersection(e.type) /\ e.actual # VUndefined)
                      => TextWithSegmentAsKey(e) \notin Range(level.mismatches)

\* C21 witness: report ran the level of a union's variants, one of them an
\* intersection; every record of the level has a value and nothing more to
\* narrow, and the level yields no mismatch
C21_Witness ==
    /\ ran.fn = "explainAll"
    /\ IsUnion(level.opts.parentType)
    /\ \E j \in DOMAIN level.errorsOnLevelsBelow :
          IsIntersection(level.errorsOnLevelsBelow[j].type)
    /\ \A j \in DOMAIN level.errorsOnLevelsBelow :
          /\ level.errorsOnLevelsBelow[j].actual # VUndefined
          /\ level.errorsOnLevelsBelow[j].isExhausted
    /\ level.mismatches = <<>>

\* l is the 0-based index of the first entry of the context whose actual is
\* not the actual of the entry after it, and -1 if there is none
FirstChange(context, l) ==
    LET Changes(k) == context[k + 1].actual # context[k + 2].actual
    IN  \/ /\ l = -1
           /\ \A k \in 0..(Len(context) - 2) : ~Changes(k)
        \/ /\ l \in 0..(Len(context) - 2)
           /\ Changes(l)
           /\ \A k \in 0..(l - 1) : ~Changes(k)

\* `after` is what C22 states of the record `before` an invocation is given
NormalizedFrom(before, after) ==
    LET context == before.context
    IN  /\ context # <<>>
        /\ after.context = Tail(context)
        /\ after.message = before.message
        /\ after.key = context[1].key
        /\ after.type = context[1].type
        /\ after.actual = context[1].actual
        /\ after.isExhausted <=>
              \A k \in 2..Len(context) : context[k].actual = context[1].actual
        /\ FirstChange(context, after.levelsUntilExhaustion)
        /\ after.wasParentExhausted <=> before.isExhausted

\* the records of an invocation's level are those of its errors that have a
\* context, in their order, each normalized as C22 states
NormalizedAll(errors, below) ==
    LET kept == SelectSeq(errors, LAMBDA e : e.context # <<>>)
    IN  /\ Len(below) = Len(kept)
        /\ \A i \in DOMAIN kept : NormalizedFrom(kept[i], below[i])

\* C22: every invocation of explain and explainAll takes the head entry,
\* and only it, off the context of each record it is given, sets isExhausted
\* iff every remaining entry has the head's actual, levelsUntilExhaustion to
\* the index of the first entry of the context it was given whose actual is
\* not the next entry's (-1 for none), and wasParentExhausted to the
\* isExhausted the record came with, which is false in the first invocation
C22_NormalizedRecord ==
    [][ /\ pc = "explain" => NormalizedAll(frame.errors, level'.errorsOnLevelsBelow)
        /\ pc = "explainAll" =>
              NormalizedAll(Head(stack).errors, level'.errorsOnLevelsBelow)
        /\ (pc # "idle" /\ ran'.crossed = <<>>) =>
              \A i \in DOMAIN level'.errorsOnLevelsBelow :
                  ~level'.errorsOnLevelsBelow[i].wasParentExhausted ]_vars

\* C22 witness: an invocation below the first one has normalized a record
\* that came exhausted and one whose actual first changes at index 1 or later
C22_Witness ==
    /\ ran.fn # ""
    /\ ran.crossed # <<>>
    /\ \E i, j \in DOMAIN level.errorsOnLevelsBelow :
          /\ level.errorsOnLevelsBelow[i].wasParentExhausted
          /\ level.errorsOnLevelsBelow[i].isExhausted
          /\ level.errorsOnLevelsBelow[j].levelsUntilExhaustion >= 1
          /\ ~level.errorsOnLevelsBelow[j].isExhausted

\* C23: at a level whose ambient type is not a union the branches kept are
\* the key groups of the level, all of them whatever their scores, and
\* report descends into each: one invocation per key group, with the
\* group's records
C23_EveryBranchKept ==
    (ran.fn # "" /\ ~IsUnion(level.opts.parentType)) =>
        /\ Len(level.branches) = Len(level.errorsByPath)
        /\ Range(level.branches) = Range(level.errorsByPath)
        /\ ran.fn = "explainAll" =>
              /\ Len(Descents) = Len(level.errorsByPath)
              /\ \A g \in DOMAIN level.errorsByPath :
                    \E i \in DOMAIN Descents :
                        /\ Descents[i].errors = level.errorsByPath[g][2]
                        /\ Descents[i].crossed[Len(Descents[i].crossed)].key
                              = level.errorsByPath[g][1]

\* C23 witness: report descended into both key groups of a level that is
\* not under a union, one of which has the lower (similarity, narrowing) pair
C23_Witness ==
    /\ ran.fn = "explainAll"
    /\ ~IsUnion(level.opts.parentType)
    /\ Len(level.errorsByPath) = 2
    /\ Len(Descents) = 2
    /\ \E g \in DOMAIN level.errorsByPath : ~Maximal(level.errorsByPath[g])

\* a record of a type that exposes named properties with a record-like value
ObjectLike(e) == getProps(e.type) # Null /\ IsRecord(e.actual)
PropertyCount(e) == Cardinality(Range(getProps(e.type)[1]))
Matched(e) ==
    Cardinality(Range(Keys(e.actual.fields)) \cap Range(getProps(e.type)[1]))
MissingCount(e) == PropertyCount(e) - Matched(e)
ObjectScore(e) == scoreObjectSimilarity(e.type, e.actual)[1]

\* C24: for the records of a union's variants that expose named properties
\* and have a record-like value, the object similarity is
\* 1 + matched - missing/(missing+1) when matched > 0 and
\* 1/(propertyCount+1) otherwise, it is the similarity the variant is scored
\* with, and a record with a matched key scores strictly higher than one
\* with none
C24_ObjectSimilarity ==
    AtUnionLevel =>
        LET scored == { e \in Range(level.errorsOnLevelsBelow) : ObjectLike(e) }
        IN  /\ \A e \in scored :
                  LET s == ObjectScore(e)
                  IN  /\ s.den > 0
                      /\ SimilarityScore(e.type, e.actual) = s
                      /\ Matched(e) > 0 =>
                            s.num * (MissingCount(e) + 1) + s.den * MissingCount(e)
                                = s.den * (1 + Matched(e)) * (MissingCount(e) + 1)
                      /\ Matched(e) = 0 => s.num * (PropertyCount(e) + 1) = s.den
            /\ \A e1, e2 \in scored :
                  (Matched(e1) > 0 /\ Matched(e2) = 0)
                      => FracLess(ObjectScore(e2), ObjectScore(e1))

\* C24 witness: under a union, a variant with one matched key and two
\* missing ones is selected over a variant of one property with no matched
\* key
C24_Witness ==
    /\ AtUnionLevel
    /\ ran.fn # ""
    /\ \E e1, e2 \in Range(level.errorsOnLevelsBelow) :
          /\ ObjectLike(e1) /\ ObjectLike(e2)
          /\ Matched(e1) = 1 /\ MissingCount(e1) = 2
          /\ Matched(e2) = 0 /\ PropertyCount(e2) = 1
          /\ Len(level.branches) = 1
          /\ level.branches[1][1] = e1.key

\* C25: of two object-shaped variants of a union none of whose property
\* names is a key of the record-like value, the one with fewer properties
\* has the strictly higher similarity and the one with more properties is
\* not the variant selected
C25_FewerPropertiesPreferred ==
    AtUnionLevel =>
        \A e1, e2 \in Range(level.errorsOnLevelsBelow) :
            ( /\ ObjectLike(e1) /\ ObjectLike(e2)
              /\ Matched(e1) = 0 /\ Matched(e2) = 0
              /\ PropertyCount(e1) < PropertyCount(e2) )
            => /\ FracLess(SimilarityScore(e2.type, e2.actual),
                           SimilarityScore(e1.type, e1.actual))
               /\ \A b \in DOMAIN level.branches : level.branches[b][1] # e2.key

\* C25 witness: the second variant of a union has fewer properties than the
\* first, the value has no key of either, and the second variant is selected
C25_Witness ==
    /\ AtUnionLevel
    /\ ran.fn # ""
    /\ \E e1, e2 \in Range(level.errorsOnLevelsBelow) :
          /\ ObjectLike(e1) /\ ObjectLike(e2)
          /\ Matched(e1) = 0 /\ Matched(e2) = 0
          /\ PropertyCount(e1) < PropertyCount(e2)
          /\ e1.key = "1" /\ e2.key = "0"
          /\ Len(level.branches) = 1
          /\ level.branches[1][1] = "1"

\* a record of a tuple type with a list-like value
TupleLike(e) == getTupleTypes(e.type) # Null /\ IsArray(e.actual)
DeclaredLength(e) == Len(getTupleTypes(e.type)[1])
ActualLength(e) == Len(e.actual.fields)

\* C26: of two tuple-shaped variants of a union and a list-like value, the
\* one whose declared length the value exceeds has no higher similarity
\* than the one whose declared length it does not exceed, and is not the
\* variant selected
C26_ExcessNotPreferred ==
    AtUnionLevel =>
        \A e1, e2 \in Range(level.errorsOnLevelsBelow) :
            ( /\ TupleLike(e1) /\ TupleLike(e2)
              /\ ActualLength(e1) > DeclaredLength(e1)
              /\ ActualLength(e2) <= DeclaredLength(e2) )
            => /\ ~FracLess(SimilarityScore(e2.type, e2.actual),
                            SimilarityScore(e1.type, e1.actual))
               /\ \A b \in DOMAIN level.branches : level.branches[b][1] # e1.key

\* every variant branch of the level has the same (similarity, narrowing)
\* pair
AllTied ==
    \A p, q \in { BranchScore(b) : b \in Range(level.errorsByPath) } :
        FracEq(p[1], q[1]) /\ FracEq(p[2], q[2])

\* no scoring method applies to any record of the level: every similarity
\* is -1
NoneScored ==
    \A e \in Range(level.errorsOnLevelsBelow) :
        /\ scoreObjectSimilarity(e.type, e.actual) = Null
        /\ scoreArraySimilarity(e.type, e.actual) = Null
        /\ scoreTupleSimilarity(e.type, e.actual) = Null
        /\ SimilarityScore(e.type, e.actual) = Frac(-1, 1)

\* C27: when all variant branches of a union level have equal (similarity,
\* narrowing) pairs, with or without a scoring method that applies, exactly
\* one branch is selected: the branch of the key met first among the
\* level's records, and both explain and explainAll go on into it
C27_AllTiedPicksFirst ==
    (AtUnionLevel /\ AllTied) =>
        /\ Len(level.branches) = 1
        /\ level.branches[1][1] = level.errorsOnLevelsBelow[1].key
        /\ level.branches[1] = level.errorsByPath[1]
        /\ (ran.fn # "" /\ ErrorsToReport(level) = <<>>) => Len(Descents) = 1

\* C27 witness: a union level of two or more variant branches, to none of
\* which a scoring method applies and which have the same narrowing; the
\* first is selected
C27_Witness ==
    /\ AtUnionLevel
    /\ ran.fn # ""
    /\ AllTied
    /\ NoneScored
    /\ Len(level.errorsByPath) >= 2
    /\ level.branches = << level.errorsByPath[1] >>

\* the failure records of the validation that the record e of the level
\* that ran last is what is left of: e's entries are theirs from the depth
\* of the invocation on, and the keys above are the branch keys crossed
ChainsOf(e) ==
    { f \in Range(validation.left) :
        /\ Len(f.context) >= Depth
        /\ f.message = e.message
        /\ f.context[Depth] = ContextEntry(e.key, e.type, e.actual)
        /\ SubSeq(f.context, Depth + 1, Len(f.context)) = e.context
        /\ \A n \in 1..(Depth - 1) : f.context[n].key = ran.crossed[n].key }

\* the failure records that are in f's key group in the invocation at depth k
GroupAt(f, k) ==
    { g \in Range(validation.left) :
        /\ Len(g.context) >= k
        /\ \A n \in 1..k : g.context[n].key = f.context[n].key }

ExhaustedAt(g, k) ==
    \A n \in (k + 1)..Len(g.context) : g.context[n].actual = g.context[k].actual

\* the invocation at depth k yields the mismatch or custom message of the
\* failure record f
EmitsAt(f, k) ==
    LET ambient == IF k = 1 THEN NoParent ELSE f.context[k - 1].type
    IN  /\ f.context[k].actual # VUndefined
        /\ ~IsUnion(ambient)
        /\ ~IsIntersection(f.context[k].type)
        /\ \/ \A g \in GroupAt(f, k) : ExhaustedAt(g, k)
           \/ ExhaustedAt(f, k) /\ ~IsUnion(f.context[k].type)

\* C28: a failure record whose mismatch or custom message an invocation of
\* explainAll yields had none yielded by the invocations above it: report
\* has at most one such message of a failure record
C28_ReportedOncePerRecord ==
    ran.fn = "explainAll" =>
        \A g \in DOMAIN level.errorsByPath :
            \A e \in Range(level.errorsByPath[g][2]) :
                ( /\ Emits(e, level.errorsByPath[g][2])
                  /\ TextWithSegmentAsKey(e) \in Range(level.mismatches) )
                => \A f \in ChainsOf(e) : \A k \in 1..(Depth - 1) : ~EmitsAt(f, k)

\* C29: a record of a level is exhausted exactly when its
\* levelsUntilExhaustion is -1, no levelsUntilExhaustion is below -1, and
\* the narrowing of a branch whose records are all exhausted is -1, which
\* no branch of the level is below
C29_ExhaustedIffNoChange ==
    ran.fn # "" =>
        /\ \A e \in Range(level.errorsOnLevelsBelow) :
              /\ e.isExhausted <=> e.levelsUntilExhaustion = -1
              /\ e.levelsUntilExhaustion >= -1
        /\ \A b \in Range(level.errorsByPath) :
              /\ GroupExhausted(b[2]) => BranchNarrowing(b) = -1
              /\ BranchNarrowing(b) >= -1

\* C29 witness: a level has a branch whose records are all exhausted and a
\* branch with a record not exhausted whose actual changes below its head's
\* successor; the exhausted branch is the last of the branches as sorted
C29_Witness ==
    /\ ran.fn # ""
    /\ Len(level.branches) >= 2
    /\ GroupExhausted(level.branches[Len(level.branches)][2])
    /\ \E e \in Range(level.branches[1][2]) :
          ~e.isExhausted /\ e.levelsUntilExhaustion >= 1

\* s is t with some of its items left out, the others in their order
RECURSIVE IsSubsequence(_, _)
IsSubsequence(s, t) ==
    IF s = <<>> THEN TRUE
    ELSE IF t = <<>> THEN FALSE
    ELSE IF Head(s) = Head(t) THEN IsSubsequence(Tail(s), Tail(t))
    ELSE IsSubsequence(s, Tail(t))

ContextKeys(f) == [n \in DOMAIN f.context |-> f.context[n].key]

\* where the message of the record e of the level is located: the path the
\* formatter is given, followed by the key it is given for a mismatch
Location(e) ==
    LET path == level.opts.path
        given == IF IsIntersection(level.opts.parentType)
                 THEN << AllButLast(path), LastOf(path) >>
                 ELSE << path, e.key >>
    IN  IF e.message # <<>> THEN given[1] ELSE Append(given[1], given[2])

\* C30: every call starts with the empty path; every mismatch or custom
\* message of a level is the message of a record at a location that is an
\* in-order subsequence of the context keys of the failure record it comes
\* from, the path of a missing message is one of a failure record with an
\* undefined value at the level, and the path an invocation hands to the
\* next is its own path or its own path with the branch key appended
C30_LocationsFollowContextKeys ==
    ran.fn # "" =>
        /\ ran.crossed = <<>> => level.opts.path = <<>>
        /\ \A i \in DOMAIN level.mismatches :
              \E e \in Range(level.errorsOnLevelsBelow) :
                  /\ level.mismatches[i] = TextWithSegmentAsKey(e)
                  /\ \E f \in ChainsOf(e) : IsSubsequence(Location(e), ContextKeys(f))
        /\ level.missing # <<>> =>
              \E e \in Range(level.errorsOnLevelsBelow) :
                  /\ e.actual = VUndefined
                  /\ \E f \in ChainsOf(e) : IsSubsequence(level.opts.path, ContextKeys(f))
        /\ \A i \in DOMAIN Descents :
              LET child == Descents[i]
                  key == child.crossed[Len(child.crossed)].key
              IN  \/ child.opts.path = level.opts.path
                  \/ child.opts.path = Append(level.opts.path, key)

\* C30 witness: below a union, a level with a path of one key yields a
\* mismatch located at that key and the record's own, two of the four
\* context keys of its failure record
C30_Witness ==
    /\ ran.fn # ""
    /\ \E n \in DOMAIN ran.crossed : ran.crossed[n].ambient = "UnionType"
    /\ Len(level.opts.path) = 1
    /\ \E e \in Range(level.errorsOnLevelsBelow) :
          /\ e.message = <<>>
          /\ TextWithSegmentAsKey(e) \in Range(level.mismatches)
          /\ Location(e) = Append(level.opts.path, e.key)
          /\ \E f \in ChainsOf(e) :
                /\ Len(f.context) = 4
                /\ IsSubsequence(Location(e), ContextKeys(f))

====
